---- MODULE Spec2Model ----
(***************************************************************************)
(* Model of pyrseas/dbobject/privileges.py: the access-privilege helpers   *)
(* of Pyrseas.                                                             *)
(*                                                                         *)
(* Strings are sequences of tokens.  Separators ("=", "/"), the grant      *)
(* option marker ("*") and the privilege codes are one-character tokens;   *)
(* a role name such as "alice" is one token; the empty string is <<>>.     *)
(* str.split, the substring test `x in s` and the %-formatting are         *)
(* modelled on these sequences.                                            *)
(***************************************************************************)
EXTENDS Integers, Sequences, FiniteSets, TLC

VARIABLES
    pc,         \* the arguments drawn ("item", "map", "diff") or the call made
    privspec,   \* the aclitem passed as privspec
    obj,        \* the object passed (currobj and newobj of diff_privs)
    owner,      \* the owner passed, <<>> when empty
    privlist,   \* the YAML-suitable privilege list passed or returned
    currlist,   \* the current aclitems passed to diff_privs
    newlist,    \* the new aclitems passed to diff_privs
    raised,     \* the call ended in ValueError
    parts,      \* the tuple _split_privs returned
    items,      \* the list privileges_from_map returned
    stmts,      \* the statements add_grant or add_revoke returned
    groups,     \* the list of statement lists diff_privs returned
    acl,        \* the privileges held while the caller runs the statements
    pending     \* the statements of groups the caller has yet to run

vars == <<pc, privspec, obj, owner, privlist, currlist, newlist,
          raised, parts, items, stmts, groups, acl, pending>>

----------------------------------------------------------------------------
(* Bounds *)

\* longest enumerated privilege-code string, in (code or code*) units
MaxCodes == 2
\* most ACL items in the current and the new list of a diff, together
MaxItems == 3
\* most privilege entries in an enumerated structured privilege list
MaxPrivs == 2

----------------------------------------------------------------------------
(* The privilege code table *)

PRIVCODES ==
    ("a" :> "insert") @@ ("r" :> "select") @@ ("w" :> "update") @@
    ("d" :> "delete") @@ ("D" :> "truncate") @@ ("x" :> "references") @@
    ("t" :> "trigger") @@ ("X" :> "execute") @@ ("U" :> "usage") @@
    ("C" :> "create")

PRIVILEGES ==
    [v \in {PRIVCODES[k] : k \in DOMAIN PRIVCODES} |->
        CHOOSE k \in DOMAIN PRIVCODES : PRIVCODES[k] = v]

\* code points of the one-character keys, the order sorted() uses
Ord ==
    ("C" :> 67) @@ ("D" :> 68) @@ ("U" :> 85) @@ ("X" :> 88) @@ ("a" :> 97) @@
    ("d" :> 100) @@ ("r" :> 114) @@ ("t" :> 116) @@ ("w" :> 119) @@ ("x" :> 120)

RECURSIVE sorted(_)
sorted(S) ==
    IF S = {} THEN <<>>
    ELSE LET m == CHOOSE x \in S : \A y \in S : Ord[x] <= Ord[y]
         IN  <<m>> \o sorted(S \ {m})

\* sorted(PRIVCODES.keys())
SortedCodes == sorted(DOMAIN PRIVCODES)

\* str.upper() on the privilege names
upper(priv) ==
    CASE priv = "insert" -> "INSERT"
      [] priv = "select" -> "SELECT"
      [] priv = "update" -> "UPDATE"
      [] priv = "delete" -> "DELETE"
      [] priv = "truncate" -> "TRUNCATE"
      [] priv = "references" -> "REFERENCES"
      [] priv = "trigger" -> "TRIGGER"
      [] priv = "execute" -> "EXECUTE"
      [] priv = "usage" -> "USAGE"
      [] priv = "create" -> "CREATE"

----------------------------------------------------------------------------
(* String primitives *)

\* Python: sub in s
Contains(s, sub) ==
    \E i \in 1..(Len(s) - Len(sub) + 1) :
        \A j \in 1..Len(sub) : s[i + j - 1] = sub[j]

\* variant: str.partition in place of str.split, always two parts
split_partition(s, sep) ==
    IF \A i \in 1..Len(s) : s[i] # sep THEN <<s, <<>> >>
    ELSE LET i == CHOOSE k \in 1..Len(s) :
                      s[k] = sep /\ \A j \in 1..(k - 1) : s[j] # sep
         IN  <<SubSeq(s, 1, i - 1), SubSeq(s, i + 1, Len(s))>>

\* Python: s.split(sep), sep one character
RECURSIVE split(_, _)
split(s, sep) ==
    IF \A i \in 1..Len(s) : s[i] # sep THEN <<s>>
    ELSE LET i == CHOOSE k \in 1..Len(s) :
                      s[k] = sep /\ \A j \in 1..(k - 1) : s[j] # sep
         IN  <<SubSeq(s, 1, i - 1)>> \o split(SubSeq(s, i + 1, Len(s)), sep)

\* Python: "%s=%s/%s" % (usr, codes, grantor)
aclitem(usr, codes, grantor) == usr \o <<"=">> \o codes \o <<"/">> \o grantor

PUBLIC == <<"PUBLIC">>

----------------------------------------------------------------------------
(* _split_privs: <grantee>=<privlist>/<grantor> *)

\* the tuple unpacking of a split result raises ValueError unless it has
\* exactly two parts
_split_privs_raises(spec) ==
    \/ Len(split(spec, "=")) # 2
    \/ Len(split(split(spec, "=")[2], "/")) # 2

_split_privs(spec) ==
    LET p == split(spec, "=")
        usr == IF p[1] = <<>> THEN PUBLIC ELSE p[1]
        q == split(p[2], "/")
    IN  <<usr, q[1], q[2]>>

----------------------------------------------------------------------------
(* _expand_priv_lists *)

\* the keys of PRIVCODES found in privcodes, in sorted order
present_codes(privcodes) ==
    LET In(code) == Contains(privcodes, <<code>>)
    IN  SelectSeq(SortedCodes, In)

\* variant: the grant option test looks for a marker anywhere
_expand_priv_lists_any_marker(o, privcodes) ==
    IF privcodes = o.allprivs /\ Len(o.allprivs) > 1
    THEN << <<"ALL">>, <<>> >>
    ELSE LET Wgo(code) == Contains(privcodes, <<"*">>)
             Plain(code) == ~Wgo(code)
             Names(s) == [i \in 1..Len(s) |-> upper(PRIVCODES[s[i]])]
         IN  << Names(SelectSeq(present_codes(privcodes), Plain)),
                Names(SelectSeq(present_codes(privcodes), Wgo)) >>

_expand_priv_lists(o, privcodes) ==
    IF privcodes = o.allprivs /\ Len(o.allprivs) > 1
    THEN << <<"ALL">>, <<>> >>
    ELSE LET Wgo(code) == Contains(privcodes, <<code, "*">>)
             Plain(code) == ~Wgo(code)
             Names(s) == [i \in 1..Len(s) |-> upper(PRIVCODES[s[i]])]
         IN  << Names(SelectSeq(present_codes(privcodes), Plain)),
                Names(SelectSeq(present_codes(privcodes), Wgo)) >>

----------------------------------------------------------------------------
(* privileges_to_map *)

(* The YAML-suitable form.  A privilege entry is the record [name] for a   *)
(* bare privilege name and [name, grantable] for the one-key dictionary    *)
(* {name: {grantable: <value>}}.  The dictionary {usr: privs} is the       *)
(* record [usr, privs], and [usr, privs, grantor] when privs is the        *)
(* dictionary {privs: ..., grantor: ...}.                                  *)

\* variant: the grant option marker is not looked at
to_map_privs_no_option(privcodes, allprivs) ==
    IF privcodes = allprivs /\ Len(allprivs) > 1
    THEN << [name |-> "all"] >>
    ELSE LET p == present_codes(privcodes)
         IN  [i \in 1..Len(p) |-> [name |-> PRIVCODES[p[i]]]]

\* variant: the shortcut is taken for a one-code allprivs too
to_map_privs_all_of_one(privcodes, allprivs) ==
    IF privcodes = allprivs
    THEN << [name |-> "all"] >>
    ELSE LET p == present_codes(privcodes)
         IN  [i \in 1..Len(p) |->
                 IF Contains(privcodes, <<p[i], "*">>)
                 THEN [name |-> PRIVCODES[p[i]], grantable |-> TRUE]
                 ELSE [name |-> PRIVCODES[p[i]]]]

to_map_privs(privcodes, allprivs) ==
    IF privcodes = allprivs /\ Len(allprivs) > 1
    THEN << [name |-> "all"] >>
    ELSE LET p == present_codes(privcodes)
         IN  [i \in 1..Len(p) |->
                 IF Contains(privcodes, <<p[i], "*">>)
                 THEN [name |-> PRIVCODES[p[i]], grantable |-> TRUE]
                 ELSE [name |-> PRIVCODES[p[i]]]]

\* variant: the grantor is kept when it is the owner, dropped when it is not
privileges_to_map_owner_kept(spec, allprivs, own) ==
    LET s == _split_privs(spec)
        privs == to_map_privs(s[2], allprivs)
    IN  IF own # <<>> /\ s[3] = own
        THEN [usr |-> s[1], privs |-> privs, grantor |-> s[3]]
        ELSE [usr |-> s[1], privs |-> privs]

privileges_to_map(spec, allprivs, own) ==
    LET s == _split_privs(spec)
        privs == to_map_privs(s[2], allprivs)
    IN  IF own # <<>> /\ s[3] # own
        THEN [usr |-> s[1], privs |-> privs, grantor |-> s[3]]
        ELSE [usr |-> s[1], privs |-> privs]

----------------------------------------------------------------------------
(* privileges_from_map *)

RECURSIVE from_map_codes(_)
from_map_codes(privs) ==
    IF privs = <<>> THEN <<>>
    ELSE LET prv == Head(privs)
             code == IF prv.name \in DOMAIN PRIVILEGES
                     THEN <<PRIVILEGES[prv.name]>> ELSE <<>>
             mark == IF "grantable" \in DOMAIN prv /\ prv.grantable
                     THEN <<"*">> ELSE <<>>
         IN  code \o mark \o from_map_codes(Tail(privs))

from_map_item(priv, allprivs, own) ==
    LET grantor == IF "grantor" \in DOMAIN priv THEN priv.grantor ELSE own
        usr == IF priv.usr = PUBLIC THEN <<>> ELSE priv.usr
        prvcodes == IF priv.privs = << [name |-> "all"] >>
                    THEN allprivs
                    ELSE from_map_codes(priv.privs)
    IN  aclitem(usr, prvcodes, grantor)

privileges_from_map(plist, allprivs, own) ==
    [i \in 1..Len(plist) |-> from_map_item(plist[i], allprivs, own)]

----------------------------------------------------------------------------
(* add_grant, add_revoke *)

(* A statement is the record of what its text is formatted from: the verb, *)
(* the ', '-joined privilege list, the object type and identifier, the     *)
(* grantee and whether the text ends WITH GRANT OPTION.                    *)

priv_objtype(o) ==
    IF "privobjtype" \in DOMAIN o THEN o.privobjtype ELSE o.objtype

statement(verb, privs, o, usr, wgo) ==
    [verb |-> verb, privs |-> privs, objtype |-> priv_objtype(o),
     ident |-> o.identifier, usr |-> usr, wgo |-> wgo]

add_grant(o, spec) ==
    LET s == _split_privs(spec)
        e == _expand_priv_lists(o, s[2])
    IN  (IF e[1] # <<>> THEN <<statement("GRANT", e[1], o, s[1], FALSE)>>
         ELSE <<>>)
        \o
        (IF e[2] # <<>> THEN <<statement("GRANT", e[2], o, s[1], TRUE)>>
         ELSE <<>>)

\* variant: the plain group is revoked first, as add_grant grants it first
add_revoke_plain_first(o, spec) ==
    LET s == _split_privs(spec)
        e == _expand_priv_lists(o, s[2])
    IN  (IF e[1] # <<>> THEN <<statement("REVOKE", e[1], o, s[1], FALSE)>>
         ELSE <<>>)
        \o
        (IF e[2] # <<>> THEN <<statement("REVOKE", e[2], o, s[1], FALSE)>>
         ELSE <<>>)

add_revoke(o, spec) ==
    LET s == _split_privs(spec)
        e == _expand_priv_lists(o, s[2])
    IN  (IF e[2] # <<>> THEN <<statement("REVOKE", e[2], o, s[1], FALSE)>>
         ELSE <<>>)
        \o
        (IF e[1] # <<>> THEN <<statement("REVOKE", e[1], o, s[1], FALSE)>>
         ELSE <<>>)

----------------------------------------------------------------------------
(* diff_privs *)

(* A dictionary is the sequence of its [key, val] entries in iteration     *)
(* order, the order in which the keys were first inserted.                 *)

dict_has(d, k) == \E i \in 1..Len(d) : d[i].key = k

dict_get(d, k) == d[CHOOSE i \in 1..Len(d) : d[i].key = k].val

dict_set(d, k, v) ==
    IF dict_has(d, k)
    THEN [i \in 1..Len(d) |-> IF d[i].key = k THEN [key |-> k, val |-> v]
                                               ELSE d[i]]
    ELSE Append(d, [key |-> k, val |-> v])

\* for privspec in list: d[(usr, grantor)] = privcodes
RECURSIVE build_privs(_)
build_privs(list) ==
    IF list = <<>> THEN <<>>
    ELSE LET n == Len(list)
             s == _split_privs(list[n])
         IN  dict_set(build_privs(SubSeq(list, 1, n - 1)), <<s[1], s[3]>>, s[2])

rejoin(privdict, usr, grantor) ==
    aclitem(IF usr = PUBLIC THEN <<>> ELSE usr,
            dict_get(privdict, <<usr, grantor>>), grantor)

\* for (usr, gtor) in currprivs: revoke what newprivs does not have
RECURSIVE revoke_loop(_, _, _, _)
revoke_loop(currobj, currprivs, newprivs, i) ==
    IF i > Len(currprivs) THEN <<>>
    ELSE LET k == currprivs[i].key
         IN  (IF ~dict_has(newprivs, k)
              THEN <<add_revoke(currobj, rejoin(currprivs, k[1], k[2]))>>
              ELSE <<>>)
             \o revoke_loop(currobj, currprivs, newprivs, i + 1)

\* variant: a changed key is granted its new codes without the revoke
RECURSIVE grant_loop_no_revoke(_, _, _, _, _)
grant_loop_no_revoke(currobj, currprivs, newobj, newprivs, i) ==
    IF i > Len(newprivs) THEN <<>>
    ELSE LET k == newprivs[i].key
         IN  (IF ~dict_has(currprivs, k)
              THEN <<add_grant(newobj, rejoin(newprivs, k[1], k[2]))>>
              ELSE IF dict_get(currprivs, k) # dict_get(newprivs, k)
              THEN <<add_grant(newobj, rejoin(newprivs, k[1], k[2]))>>
              ELSE <<>>)
             \o grant_loop_no_revoke(currobj, currprivs, newobj, newprivs, i + 1)

\* for (usr, gtor) in newprivs: grant the new keys, replace the changed ones
RECURSIVE grant_loop(_, _, _, _, _)
grant_loop(currobj, currprivs, newobj, newprivs, i) ==
    IF i > Len(newprivs) THEN <<>>
    ELSE LET k == newprivs[i].key
         IN  (IF ~dict_has(currprivs, k)
              THEN <<add_grant(newobj, rejoin(newprivs, k[1], k[2]))>>
              ELSE IF dict_get(currprivs, k) # dict_get(newprivs, k)
              THEN <<add_revoke(currobj, rejoin(currprivs, k[1], k[2])),
                     add_grant(newobj, rejoin(newprivs, k[1], k[2]))>>
              ELSE <<>>)
             \o grant_loop(currobj, currprivs, newobj, newprivs, i + 1)

diff_privs_raises(clist, nlist) ==
    \/ \E i \in 1..Len(clist) : _split_privs_raises(clist[i])
    \/ \E i \in 1..Len(nlist) : _split_privs_raises(nlist[i])

diff_privs(currobj, clist, newobj, nlist) ==
    LET currprivs == build_privs(clist)
        newprivs == build_privs(nlist)
    IN  revoke_loop(currobj, currprivs, newprivs, 1)
        \o grant_loop(currobj, currprivs, newobj, newprivs, 1)

----------------------------------------------------------------------------
(* Inputs *)

\* objects as the callers pass them: objtype, identifier(), allprivs and,
\* on some classes, privobjtype
SchemaObj ==
    [objtype |-> "SCHEMA", identifier |-> "s1", allprivs |-> <<"U", "C">>]

FunctionObj ==
    [objtype |-> "FUNCTION", identifier |-> "f1()", allprivs |-> <<"X">>]

ViewObj ==
    [objtype |-> "VIEW", privobjtype |-> "TABLE", identifier |-> "v1",
     allprivs |-> <<"a", "r", "w", "d", "D", "x", "t">>]

Objects == {SchemaObj, FunctionObj, ViewObj}

Grantees == {<<>>, <<"alice">>}
Grantors == {<<"bob">>, <<"carol">>}
Owners == {<<>>, <<"bob">>, <<"carol">>}

\* the codes the enumerated code strings are built from
EnumCodes == {"C", "U", "a"}

CodeUnits == {<<c>> : c \in EnumCodes} \cup {<<c, "*">> : c \in EnumCodes}

RECURSIVE CodeStringsOf(_)
CodeStringsOf(n) ==
    IF n = 0 THEN {<<>>}
    ELSE CodeStringsOf(n - 1) \cup
         {s \o u : s \in CodeStringsOf(n - 1), u \in CodeUnits}

CodeStrings == CodeStringsOf(MaxCodes) \cup {o.allprivs : o \in Objects}

GoodItems ==
    {aclitem(g, c, r) : g \in Grantees, c \in CodeStrings, r \in Grantors}

\* what is left of an item when a separator is missing or misplaced
BadItems ==
    UNION {{g \o c \o <<"/">> \o r, g \o <<"=">> \o c \o r, g \o c \o r,
            g \o <<"/">> \o r \o <<"=">> \o c} :
           g \in Grantees, c \in CodeStringsOf(1), r \in Grantors}

Items == GoodItems \cup BadItems

PrivNames == {"select", "all", "bogus"}

PrivEntries ==
    [name : PrivNames] \cup [name : PrivNames, grantable : BOOLEAN]

RECURSIVE PrivsOf(_)
PrivsOf(n) ==
    IF n = 0 THEN {<<>>}
    ELSE PrivsOf(n - 1) \cup {Append(s, e) : s \in PrivsOf(n - 1), e \in PrivEntries}

PrivMaps ==
    [usr : {PUBLIC, <<"alice">>}, privs : PrivsOf(MaxPrivs)] \cup
    [usr : {PUBLIC, <<"alice">>}, privs : PrivsOf(MaxPrivs), grantor : {<<"carol">>}]

\* the ACL items of the diffed object
DiffKeys == {<< <<"alice">>, <<"bob">> >>, << <<"alice">>, <<"carol">> >>,
             << <<>>, <<"bob">> >>}
DiffCodes == {<<"U">>, <<"U", "*", "C">>, <<"U", "C">>}
DiffItems == {aclitem(k[1], c, k[2]) : k \in DiffKeys, c \in DiffCodes}
             \cup {<<"alice", "=", "U">>}

\* an object has at most one ACL item per (grantee, grantor)
UniqueKeys(list) ==
    \A i, j \in 1..Len(list) :
        (/\ i # j
         /\ ~_split_privs_raises(list[i])
         /\ ~_split_privs_raises(list[j]))
        => <<_split_privs(list[i])[1], _split_privs(list[i])[3]>>
           # <<_split_privs(list[j])[1], _split_privs(list[j])[3]>>

RECURSIVE AclLists(_)
AclLists(n) ==
    IF n = 0 THEN {<<>>}
    ELSE AclLists(n - 1) \cup
         {l \in {Append(s, e) : s \in AclLists(n - 1), e \in DiffItems} :
              UniqueKeys(l)}

\* the current and the new list of one call
DiffInputs ==
    LET Lists == AclLists(MaxItems)
    IN  UNION {{<<c, n>> : n \in {l \in Lists : Len(c) + Len(l) <= MaxItems}} :
               c \in Lists}

----------------------------------------------------------------------------
(* The privileges an ACL gives, and what a statement does to them *)

\* <<grantee, privilege, grantable>> for every code of every item
AclOf(list) ==
    UNION {LET s == _split_privs(list[n])
           IN  {<<s[1], upper(PRIVCODES[s[2][i]]),
                  i < Len(s[2]) /\ s[2][i + 1] = "*">> :
                    i \in {j \in 1..Len(s[2]) : s[2][j] \in DOMAIN PRIVCODES}}
           : n \in 1..Len(list)}

StmtPrivs(st, o) ==
    IF st.privs = <<"ALL">>
    THEN {upper(PRIVCODES[o.allprivs[i]]) : i \in 1..Len(o.allprivs)}
    ELSE {st.privs[i] : i \in 1..Len(st.privs)}

Execute(a, st, o) ==
    IF st.verb = "REVOKE"
    THEN {t \in a : ~(t[1] = st.usr /\ t[2] \in StmtPrivs(st, o))}
    ELSE a \cup {<<st.usr, p, st.wgo>> : p \in StmtPrivs(st, o)}

RECURSIVE Flatten(_)
Flatten(gs) == IF gs = <<>> THEN <<>> ELSE Head(gs) \o Flatten(Tail(gs))

----------------------------------------------------------------------------
(* The state machine: a call's arguments, then the call *)

NothingReturned ==
    /\ raised = FALSE /\ parts = <<>> /\ items = <<>> /\ stmts = <<>>
    /\ groups = <<>> /\ acl = {} /\ pending = <<>>

\* one ACL item, for _split_privs, privileges_to_map, add_grant, add_revoke
InitItem ==
    /\ pc = "item"
    /\ obj \in Objects /\ owner \in Owners
    /\ privspec \in Items
    /\ privlist = <<>> /\ currlist = <<>> /\ newlist = <<>>
    /\ NothingReturned

\* a privilege list of the YAML-suitable form, for privileges_from_map
InitMap ==
    /\ pc = "map"
    /\ obj \in Objects /\ owner \in Owners
    /\ \E m \in PrivMaps : privlist = <<m>>
    /\ privspec = <<>> /\ currlist = <<>> /\ newlist = <<>>
    /\ NothingReturned

\* the current and the new ACL of one object, for diff_privs
InitDiff ==
    /\ pc = "diff"
    /\ obj = SchemaObj /\ owner = <<"bob">>
    /\ \E d \in DiffInputs : currlist = d[1] /\ newlist = d[2]
    /\ privspec = <<>> /\ privlist = <<>>
    /\ NothingReturned

Init == InitItem \/ InitMap \/ InitDiff

SplitPrivs ==
    /\ pc = "item"
    /\ pc' = "split"
    /\ IF _split_privs_raises(privspec)
       THEN raised' = TRUE /\ parts' = parts
       ELSE raised' = raised /\ parts' = _split_privs(privspec)
    /\ UNCHANGED <<privspec, obj, owner, privlist, currlist, newlist, items,
                   stmts, groups, acl, pending>>

ToMap ==
    /\ pc = "item"
    /\ pc' = "to_map"
    /\ IF _split_privs_raises(privspec)
       THEN raised' = TRUE /\ privlist' = privlist
       ELSE /\ raised' = raised
            /\ privlist' = <<privileges_to_map(privspec, obj.allprivs, owner)>>
    /\ UNCHANGED <<privspec, obj, owner, currlist, newlist, parts, items,
                   stmts, groups, acl, pending>>

FromMap ==
    /\ pc \in {"map", "to_map"} /\ ~raised
    /\ pc' = IF pc = "map" THEN "from_map" ELSE "round_trip"
    /\ items' = privileges_from_map(privlist, obj.allprivs, owner)
    /\ UNCHANGED <<privspec, obj, owner, privlist, currlist, newlist, raised,
                   parts, stmts, groups, acl, pending>>

AddGrant ==
    /\ pc = "item"
    /\ pc' = "grant"
    /\ IF _split_privs_raises(privspec)
       THEN raised' = TRUE /\ stmts' = stmts
       ELSE raised' = raised /\ stmts' = add_grant(obj, privspec)
    /\ UNCHANGED <<privspec, obj, owner, privlist, currlist, newlist, parts,
                   items, groups, acl, pending>>

AddRevoke ==
    /\ pc = "item"
    /\ pc' = "revoke"
    /\ IF _split_privs_raises(privspec)
       THEN raised' = TRUE /\ stmts' = stmts
       ELSE raised' = raised /\ stmts' = add_revoke(obj, privspec)
    /\ UNCHANGED <<privspec, obj, owner, privlist, currlist, newlist, parts,
                   items, groups, acl, pending>>

\* the call, and the ACL its statements are about to run against
DiffPrivs ==
    /\ pc = "diff"
    /\ pc' = "diffed"
    /\ IF diff_privs_raises(currlist, newlist)
       THEN raised' = TRUE /\ UNCHANGED <<groups, acl, pending>>
       ELSE /\ raised' = raised
            /\ groups' = diff_privs(obj, currlist, obj, newlist)
            /\ pending' = Flatten(groups')
            /\ acl' = AclOf(currlist)
    /\ UNCHANGED <<privspec, obj, owner, privlist, currlist, newlist, parts,
                   items, stmts>>

\* the caller runs the next statement
Run ==
    /\ pc = "diffed" /\ pending # <<>>
    /\ acl' = Execute(acl, Head(pending), obj)
    /\ pending' = Tail(pending)
    /\ UNCHANGED <<pc, privspec, obj, owner, privlist, currlist, newlist,
                   raised, parts, items, stmts, groups>>

Next ==
    \/ SplitPrivs
    \/ ToMap
    \/ FromMap
    \/ AddGrant
    \/ AddRevoke
    \/ DiffPrivs
    \/ Run

Spec == Init /\ [][Next]_vars

----------------------------------------------------------------------------
(* Vocabulary of the properties: an ACL item read token by token *)

\* the item's text before its first "=", between it and the last "/", after
WireGrantee(item) ==
    SubSeq(item, 1, (CHOOSE i \in 1..Len(item) : item[i] = "=") - 1)

WireGrantor(item) ==
    SubSeq(item, (CHOOSE i \in 1..Len(item) : item[i] = "/") + 1, Len(item))

WireCodes(item) ==
    SubSeq(item, (CHOOSE i \in 1..Len(item) : item[i] = "=") + 1,
                 (CHOOSE i \in 1..Len(item) : item[i] = "/") - 1)

\* no "=", or no "/" after the "="
Malformed(item) ==
    \/ \A i \in 1..Len(item) : item[i] # "="
    \/ \E i \in 1..Len(item) :
          /\ item[i] = "="
          /\ \A j \in (i + 1)..Len(item) : item[j] # "/"

\* the table codes of a code string, and those followed by the marker
CodeSet(codes) ==
    {codes[i] : i \in {j \in 1..Len(codes) : codes[j] \in DOMAIN PRIVCODES}}

MarkedSet(codes) ==
    {codes[i] : i \in {j \in 1..(Len(codes) - 1) :
                          codes[j] \in DOMAIN PRIVCODES /\ codes[j + 1] = "*"}}

SqlName(code) == upper(PRIVCODES[code])

SqlCode(priv) == CHOOSE c \in DOMAIN PRIVCODES : SqlName(c) = priv

Elems(seq) == {seq[i] : i \in 1..Len(seq)}

IsAllPrivs(codes, o) == codes = o.allprivs /\ Len(o.allprivs) > 1

AllEntry == << [name |-> "all"] >>

----------------------------------------------------------------------------
(* C1 *)

\* C1: once every statement returned by diff_privs has run, in the order
\* emitted, against the privileges of the current ACL, the grantees hold
\* exactly the privileges of the new ACL.
C1_DiffReachesNewAcl ==
    (pc = "diffed" /\ ~raised /\ pending = <<>>) => acl = AclOf(newlist)

----------------------------------------------------------------------------
(* C8 *)

\* what the entries of a privilege list stand for when an entry with an
\* unknown name counts for nothing
RECURSIVE KnownCodes(_)
KnownCodes(privs) ==
    IF privs = <<>> THEN <<>>
    ELSE LET prv == Head(privs)
         IN  (IF prv.name \in DOMAIN PRIVILEGES
              THEN <<PRIVILEGES[prv.name]>> \o
                   (IF "grantable" \in DOMAIN prv /\ prv.grantable
                    THEN <<"*">> ELSE <<>>)
              ELSE <<>>)
             \o KnownCodes(Tail(privs))

\* C8: privileges_from_map skips an entry with an unknown privilege name
\* altogether, its grantable flag included, so every "*" of the code string
\* follows the code of the entry that carried the flag.
C8_UnknownEntrySkipped ==
    (pc = "from_map" /\ privlist[1].privs # AllEntry)
        => WireCodes(items[1]) = KnownCodes(privlist[1].privs)

----------------------------------------------------------------------------
(* C9 *)

Perms(seq) ==
    {[i \in 1..Len(seq) |-> seq[f[i]]] :
        f \in {g \in [1..Len(seq) -> 1..Len(seq)] :
                  \A i, j \in 1..Len(seq) : i # j => g[i] # g[j]}}

\* C9: diff_privs returns the same sequence of statement groups however the
\* items of the current and of the new list are ordered.
C9_OrderIndependent ==
    (pc = "diffed" /\ ~raised) =>
        \A c \in Perms(currlist), n \in Perms(newlist) :
            diff_privs(obj, c, obj, n) = groups

----------------------------------------------------------------------------
(* C2 *)

\* the (grantee, grantor) an item is filed under
ItemKey(item) ==
    <<IF WireGrantee(item) = <<>> THEN PUBLIC ELSE WireGrantee(item),
      WireGrantor(item)>>

\* positions of the current list whose key the new list lacks
OnlyCurrent(ckey, nkey) ==
    {i \in DOMAIN ckey : \A j \in DOMAIN nkey : nkey[j] # ckey[i]}

\* pairs of positions with one key and two code strings
Changed(ckey, nkey) ==
    {ij \in (DOMAIN ckey) \X (DOMAIN nkey) :
        /\ ckey[ij[1]] = nkey[ij[2]]
        /\ WireCodes(currlist[ij[1]]) # WireCodes(newlist[ij[2]])}

\* C2: the result of diff_privs holds one revoke group per key of the
\* current list alone, one grant group per key of the new list alone, for a
\* key with two different code strings the revoke group of the whole current
\* item directly followed by the grant group of the whole new item, and
\* nothing else; equal lists give no group.
C2_DiffGroups ==
    (pc = "diffed" /\ ~raised) =>
        LET ckey == [i \in 1..Len(currlist) |-> ItemKey(currlist[i])]
            nkey == [j \in 1..Len(newlist) |-> ItemKey(newlist[j])]
            only_current == OnlyCurrent(ckey, nkey)
            only_new == OnlyCurrent(nkey, ckey)
            changed == Changed(ckey, nkey)
            revoke == [i \in 1..Len(currlist) |-> add_revoke(obj, currlist[i])]
            grant == [j \in 1..Len(newlist) |-> add_grant(obj, newlist[j])]
            \* how many groups equal to g the result is to hold
            Wanted(g) ==
                Cardinality({i \in only_current : revoke[i] = g}) +
                Cardinality({j \in only_new : grant[j] = g}) +
                Cardinality({ij \in changed : revoke[ij[1]] = g}) +
                Cardinality({ij \in changed : grant[ij[2]] = g})
        IN  /\ Len(groups) = Cardinality(only_current) + Cardinality(only_new)
                             + 2 * Cardinality(changed)
            /\ \A p \in 1..Len(groups) :
                   Cardinality({q \in 1..Len(groups) : groups[q] = groups[p]})
                       = Wanted(groups[p])
            /\ \A ij \in changed :
                   \E p \in 1..(Len(groups) - 1) :
                       /\ groups[p] = revoke[ij[1]]
                       /\ groups[p + 1] = grant[ij[2]]
            /\ currlist = newlist => groups = <<>>

C2_Witness ==
    /\ pc = "diffed" /\ ~raised
    /\ Len(currlist) = 2 /\ Len(newlist) = 1
    /\ ItemKey(currlist[1]) # ItemKey(newlist[1])
    /\ ItemKey(currlist[2]) = ItemKey(newlist[1])
    /\ WireCodes(currlist[2]) # WireCodes(newlist[1])
    /\ Len(groups) = 3
    /\ groups[1][1].verb = "REVOKE" /\ groups[2][1].verb = "REVOKE"
    /\ groups[3][1].verb = "GRANT"

----------------------------------------------------------------------------
(* C3 *)

\* C3: privileges_from_map of the one map privileges_to_map made of an ACL
\* item gives one ACL item, with the grantee of the original as written on
\* the wire, the same set of privilege codes and the grant option marker on
\* the same codes.
C3_RoundTrip ==
    pc = "round_trip" =>
        /\ Len(items) = 1
        /\ ~Malformed(items[1])
        /\ WireGrantee(items[1]) = WireGrantee(privspec)
        /\ CodeSet(WireCodes(items[1])) = CodeSet(WireCodes(privspec))
        /\ MarkedSet(WireCodes(items[1])) = MarkedSet(WireCodes(privspec))

C3_Witness ==
    /\ pc = "round_trip"
    /\ privspec = <<"=", "a", "*", "/", "bob">>
    /\ privlist[1].usr = PUBLIC
    /\ privlist[1].privs = << [name |-> "insert", grantable |-> TRUE] >>
    /\ items = << <<"=", "a", "*", "/", "bob">> >>

----------------------------------------------------------------------------
(* C4 *)

----------------------------------------------------------------------------
(* C5 *)

\* C5: privileges_to_map gives the 'all' shortcut exactly when the code
\* string is allprivs itself and allprivs is longer than one code, and
\* privileges_from_map turns the shortcut into allprivs itself.
C5_AllShortcut ==
    /\ (pc = "to_map" /\ ~raised) =>
           (privlist[1].privs = AllEntry
                <=> (/\ WireCodes(privspec) = obj.allprivs
                     /\ Cardinality(CodeSet(obj.allprivs)) > 1))
    /\ (pc \in {"from_map", "round_trip"} /\ privlist[1].privs = AllEntry)
           => WireCodes(items[1]) = obj.allprivs

C5_Witness ==
    /\ pc = "round_trip"
    /\ obj = ViewObj
    /\ WireCodes(privspec) = <<"a", "r", "w", "d", "D", "x", "t">>
    /\ privlist[1].privs = AllEntry
    /\ WireCodes(items[1]) = <<"a", "r", "w", "d", "D", "x", "t">>

----------------------------------------------------------------------------
(* C6 *)

\* C6: a call of _split_privs, privileges_to_map, add_grant or add_revoke
\* with a malformed item, and a call of diff_privs with a malformed item
\* anywhere in either list, ends in the error and returns nothing.
C6_MalformedRaises ==
    /\ (pc \in {"split", "to_map", "grant", "revoke"} /\ Malformed(privspec))
           => (raised /\ parts = <<>> /\ privlist = <<>> /\ stmts = <<>>)
    /\ (/\ pc = "diffed"
        /\ \E item \in Elems(currlist) \cup Elems(newlist) : Malformed(item))
           => (raised /\ groups = <<>> /\ pending = <<>>)

C6_Witness ==
    /\ pc = "diffed"
    /\ Len(currlist) = 1 /\ ~Malformed(currlist[1])
    /\ Len(newlist) = 2 /\ ~Malformed(newlist[1]) /\ Malformed(newlist[2])
    /\ raised /\ groups = <<>>

----------------------------------------------------------------------------
(* C7 *)

\* the privileges of the plain and of the grant option group of an item
PlainGroup(item, o) ==
    IF IsAllPrivs(WireCodes(item), o) THEN {"ALL"}
    ELSE {SqlName(c) : c \in CodeSet(WireCodes(item)) \ MarkedSet(WireCodes(item))}

OptionGroup(item, o) ==
    IF IsAllPrivs(WireCodes(item), o) THEN {}
    ELSE {SqlName(c) : c \in MarkedSet(WireCodes(item))}

Count(b) == IF b THEN 1 ELSE 0

\* C7: add_grant returns the GRANT of the plain group, then the GRANT WITH
\* GRANT OPTION of the grant option group; add_revoke returns the REVOKE of
\* the grant option group, then the REVOKE of the plain group; a statement
\* is there exactly when its group is not empty, so there are at most two
\* and none names an empty privilege list.
C7_StatementOrder ==
    (pc \in {"grant", "revoke"} /\ ~raised) =>
        LET plain == PlainGroup(privspec, obj)
            option == OptionGroup(privspec, obj)
            first == IF pc = "grant" THEN plain ELSE option
            second == IF pc = "grant" THEN option ELSE plain
        IN  /\ Len(stmts) = Count(first # {}) + Count(second # {})
            /\ \A i \in 1..Len(stmts) :
                   /\ stmts[i].privs # <<>>
                   /\ stmts[i].verb = IF pc = "grant" THEN "GRANT" ELSE "REVOKE"
            /\ first # {} => Elems(stmts[1].privs) = first
            /\ second # {} => Elems(stmts[Len(stmts)].privs) = second
            /\ pc = "grant" =>
                   /\ plain # {} => ~stmts[1].wgo
                   /\ option # {} => stmts[Len(stmts)].wgo

C7_Witness ==
    /\ pc = "revoke" /\ ~raised
    /\ WireCodes(privspec) = <<"a", "*", "U">>
    /\ Len(stmts) = 2
    /\ stmts[1].privs = <<"INSERT">>
    /\ stmts[2].privs = <<"USAGE">>

----------------------------------------------------------------------------
(* C10 *)

\* the privileges add_grant names without and with the grant option
Granted(option) ==
    Flatten([i \in 1..Len(stmts) |->
                IF stmts[i].wgo = option THEN stmts[i].privs ELSE <<>>])

\* each privilege once, in the order of the codes
InCodeOrder(names) ==
    \A i, j \in 1..Len(names) :
        i < j => Ord[SqlCode(names[i])] < Ord[SqlCode(names[j])]

\* C10: the lists add_grant and add_revoke expand a code string to.  A code
\* string equal to the allprivs of the object, allprivs longer than one
\* code, is ALL in the plain group alone.  Any other gives each of its codes
\* in one group, the grant option group exactly when the code is followed
\* by the marker, each group once and in sorted code order, and no
\* privilege that is not in the code string.
C10_CodePartition ==
    /\ (pc = "grant" /\ ~raised) =>
           IF IsAllPrivs(WireCodes(privspec), obj)
           THEN Granted(FALSE) = <<"ALL">> /\ Granted(TRUE) = <<>>
           ELSE /\ InCodeOrder(Granted(FALSE)) /\ InCodeOrder(Granted(TRUE))
                /\ Elems(Granted(TRUE))
                       = {SqlName(c) : c \in MarkedSet(WireCodes(privspec))}
                /\ Elems(Granted(FALSE))
                       = {SqlName(c) : c \in CodeSet(WireCodes(privspec))
                                            \ MarkedSet(WireCodes(privspec))}
    /\ (pc = "revoke" /\ ~raised) =>
           UNION {Elems(stmts[i].privs) : i \in 1..Len(stmts)}
               = IF IsAllPrivs(WireCodes(privspec), obj) THEN {"ALL"}
                 ELSE {SqlName(c) : c \in CodeSet(WireCodes(privspec))}

C10_Witness ==
    /\ pc = "grant" /\ ~raised
    /\ obj = ViewObj
    /\ WireCodes(privspec) = <<"a", "*", "C">>
    /\ Granted(FALSE) = <<"CREATE">>
    /\ Granted(TRUE) = <<"INSERT">>

====
